---- MODULE Spec2Model ----
(***************************************************************************)
(* SecureBackupPanel (src/components/views/settings/SecureBackupPanel.tsx) *)
(* as a state machine: the component state (the "snapshot"), the unmounted *)
(* flag, the event listeners, and every asynchronous call or dialog that   *)
(* is in flight.  Each action is one synchronous run of a handler or of a  *)
(* continuation after an await.                                            *)
(***************************************************************************)
EXTENDS Bags, FiniteSets, Integers, Sequences, TLC

\* ------------------------------------------------------------------ bounds
\* Most calls and dialogs in flight at once.
MaxPending == 3
\* Longest signature list of a TrustInfo handed to render.
MaxSigs == 1

\* ------------------------------------------------------------------ values
\* The counts a KeyBackupSessionsRemaining event carries: none left, some left.
SessionCounts == {0, 5}

\* JavaScript null.
Null == [null |-> TRUE]

\* A state field typed boolean that the constructor sets to null.
Bool3 == {"null", "true", "false"}
ToJs(b) == IF b THEN "true" ELSE "false"
Truthy(v) == v = "true"

\* IKeyBackupInfo values the server can report.
BackupInfos ==
    { [version |-> "1", algorithm |-> "m.megolm_backup.v1"],
      [version |-> "2", algorithm |-> "m.megolm_backup.v1"] }

\* What MatrixClientPeg.get().getDeviceEd25519Key() and getCrossSigningId()
\* return for this client.
LocalDeviceKey == "ed25519:local"
LocalCrossSigningId == "cross:local"

\* DeviceInfo objects a signature can refer to (sig.device), null when the
\* device is unknown.
Devices ==
    { [deviceId |-> "THISDEVICE", fingerprint |-> LocalDeviceKey],
      [deviceId |-> "OTHERDEVICE", fingerprint |-> "ed25519:other"] }

\* The entries of TrustInfo.sigs.  crossSigningId is "" when absent,
\* deviceVerified is sig.deviceTrust.isVerified().
Signatures ==
    [ deviceId : {LocalCrossSigningId, "cross:other"},
      device : Devices \cup {Null},
      crossSigningId : {"", LocalCrossSigningId, "cross:other"},
      valid : BOOLEAN,
      deviceVerified : BOOLEAN ]

SigSeqs(n) == UNION { [1..k -> Signatures] : k \in 0..n }

\* The failures of the external calls, one value per call.
Err(call) == [message |-> call]
TypeError == Err("TypeError")

\* ----------------------------------------------------- signature classifier
\* render, the body of backupSigStatus.sigs.map: the if / else-if chain that
\* picks the message of one signature.
fromThisDevice(sig) ==
    sig.device # Null /\ sig.device.fingerprint = LocalDeviceKey

\* fromThisUser comparing the crossSigningId with the local identity.
fromThisUser_byCrossSigningId(sig) ==
    sig.crossSigningId # "" /\ sig.crossSigningId = LocalCrossSigningId

fromThisUser(sig) ==
    sig.crossSigningId # "" /\ sig.deviceId = LocalCrossSigningId

\* sigStatus with the device arms tried before the unknown-user arm.
sigStatus_deviceFirst(sig) ==
    IF sig.valid /\ fromThisUser(sig) THEN "ValidFromThisUser"
    ELSE IF ~sig.valid /\ fromThisUser(sig) THEN "InvalidFromThisUser"
    ELSE IF sig.device = Null /\ sig.crossSigningId = "" THEN "FromUnknownSession"
    ELSE IF sig.device # Null /\ sig.valid /\ fromThisDevice(sig)
        THEN "ValidFromThisSession"
    ELSE IF sig.device # Null /\ ~sig.valid /\ fromThisDevice(sig)
        THEN "InvalidFromThisSession"
    ELSE IF sig.crossSigningId # "" THEN "FromUnknownUser"
    ELSE IF sig.valid /\ sig.deviceVerified THEN "ValidFromVerifiedSession"
    ELSE IF sig.valid /\ ~sig.deviceVerified THEN "ValidFromUnverifiedSession"
    ELSE IF ~sig.valid /\ sig.deviceVerified THEN "InvalidFromVerifiedSession"
    ELSE "InvalidFromUnverifiedSession"

sigStatus(sig) ==
    IF sig.valid /\ fromThisUser(sig) THEN "ValidFromThisUser"
    ELSE IF ~sig.valid /\ fromThisUser(sig) THEN "InvalidFromThisUser"
    ELSE IF sig.crossSigningId # "" THEN "FromUnknownUser"
    ELSE IF sig.device = Null THEN "FromUnknownSession"
    ELSE IF sig.valid /\ fromThisDevice(sig) THEN "ValidFromThisSession"
    ELSE IF ~sig.valid /\ fromThisDevice(sig) THEN "InvalidFromThisSession"
    ELSE IF sig.valid /\ sig.deviceVerified THEN "ValidFromVerifiedSession"
    ELSE IF sig.valid /\ ~sig.deviceVerified THEN "ValidFromUnverifiedSession"
    ELSE IF ~sig.valid /\ sig.deviceVerified THEN "InvalidFromVerifiedSession"
    ELSE IF ~sig.valid /\ ~sig.deviceVerified THEN "InvalidFromUnverifiedSession"
    ELSE "undefined"

\* The list shown for a TrustInfo: one entry per signature, or the single
\* "not signed by any of your sessions" text.
backupSigStatuses(trust) ==
    IF Len(trust.sigs) = 0 THEN <<"Unsigned">>
    ELSE [i \in 1..Len(trust.sigs) |-> sigStatus(trust.sigs[i])]

\* ------------------------------------------------------------------ render
\* statusDescription without the loading arm.
statusDescription_noSpinner(st) ==
    IF st.error # Null THEN "error"
    ELSE IF st.backupInfo # Null THEN "backup"
    ELSE "noBackup"

\* render: which arm of "if (error) / else if (loading) / else if
\* (backupInfo) / else" is taken.
statusDescription(st) ==
    IF st.error # Null THEN "error"
    ELSE IF st.loading THEN "spinner"
    ELSE IF st.backupInfo # Null THEN "backup"
    ELSE "noBackup"

\* actions with the reset button pushed inside the last arm.
actions_resetInLastArm(st, required) ==
    IF statusDescription(st) = "backup"
        THEN <<"restore">> \o (IF ~required THEN <<"delete">> ELSE <<>>)
    ELSE IF statusDescription(st) = "noBackup"
        THEN <<"setup">> \o (IF Truthy(st.secretStorageKeyInAccount)
                                THEN <<"reset">> ELSE <<>>)
    ELSE <<>>

\* actions with the delete button pushed whatever the policy says.
actions_deleteAlways(st, required) ==
    (IF statusDescription(st) = "backup" THEN <<"restore", "delete">>
     ELSE IF statusDescription(st) = "noBackup" THEN <<"setup">>
     ELSE <<>>)
    \o (IF Truthy(st.secretStorageKeyInAccount) THEN <<"reset">> ELSE <<>>)

\* actions with the restore button pushed only where backup is not required.
actions_restoreByPolicy(st, required) ==
    (IF statusDescription(st) = "backup"
        THEN IF ~required THEN <<"restore", "delete">> ELSE <<>>
     ELSE IF statusDescription(st) = "noBackup" THEN <<"setup">>
     ELSE <<>>)
    \o (IF Truthy(st.secretStorageKeyInAccount) THEN <<"reset">> ELSE <<>>)

\* render: the keys of the buttons pushed to the actions array, in order.
actions(st, required) ==
    (IF statusDescription(st) = "backup"
        THEN <<"restore">> \o (IF ~required THEN <<"delete">> ELSE <<>>)
     ELSE IF statusDescription(st) = "noBackup" THEN <<"setup">>
     ELSE <<>>)
    \o (IF Truthy(st.secretStorageKeyInAccount) THEN <<"reset">> ELSE <<>>)

\* render: what one call yields.  backupSigStatus.sigs is read only in the
\* backupInfo arm, where a null backupSigStatus throws.
render(st, required) ==
    IF statusDescription(st) = "backup" /\ st.backupSigStatus = Null
        THEN [ statusDescription |-> "TypeError",
               backupSigStatuses |-> <<>>,
               actions |-> <<>> ]
        ELSE [ statusDescription |-> statusDescription(st),
               backupSigStatuses |->
                   IF statusDescription(st) = "backup"
                       THEN backupSigStatuses(st.backupSigStatus)
                       ELSE <<>>,
               actions |-> actions(st, required) ]

\* What is on the screen when render has not run, and once the component is
\* unmounted.
NotRendered ==
    [ statusDescription |-> "", backupSigStatuses |-> <<>>, actions |-> <<>> ]

\* ------------------------------------------------------------------- state
VARIABLES
    state,                \* this.state, the snapshot
    unmounted,            \* this.unmounted
    lifecycle,            \* "constructed", "mounted" or "unmounted"
    listeners,            \* the CryptoEvents this component listens to
    clientPresent,        \* MatrixClientPeg.get() is not null
    secureBackupRequired, \* isSecureBackupRequired()
    pending,              \* bag of the calls and dialogs in flight
    checkKeyBackupCalls,  \* how many times checkKeyBackup() was called
    uncaught,             \* the error the last step left uncaught, if any
    rendered,             \* the result of the last render
    latestRefresh         \* history: the call the most recently started
                          \* refresh waits on, Null once that refresh is over
                          \* or the component is unmounted

vars == << state, unmounted, lifecycle, listeners, clientPresent,
           secureBackupRequired, pending, checkKeyBackupCalls, uncaught,
           rendered, latestRefresh >>

\* One call or dialog in flight; arg is the IKeyBackupInfo it carries, if any.
Task(kind, arg) == [kind |-> kind, arg |-> arg]

InFlight == BagCardinality(pending)

\* Room for n more calls in flight.
Room(n) == InFlight + n <= MaxPending

\* The constructor's this.state.
InitialState ==
    [ loading |-> TRUE,
      error |-> Null,
      backupKeyStored |-> "null",
      backupKeyCached |-> "null",
      backupKeyWellFormed |-> "null",
      secretStorageKeyInAccount |-> "null",
      secretStorageReady |-> "null",
      backupInfo |-> Null,
      backupSigStatus |-> Null,
      sessionsRemaining |-> 0 ]

\* this.setState(patch): the fields of patch replace those of the state, and
\* the component renders again.
Merge(st, patch) ==
    [f \in DOMAIN st |-> IF f \in DOMAIN patch THEN patch[f] ELSE st[f]]

\* An unmounted component is not rendered any more.
setState(patch) ==
    /\ state' = Merge(state, patch)
    /\ rendered' = IF lifecycle = "unmounted" THEN rendered
                   ELSE render(Merge(state, patch), secureBackupRequired)

Init ==
    /\ state = InitialState
    /\ unmounted = FALSE
    /\ lifecycle = "constructed"
    /\ listeners = {}
    /\ clientPresent = TRUE
    /\ secureBackupRequired \in BOOLEAN
    /\ pending = EmptyBag
    /\ checkKeyBackupCalls = 0
    /\ uncaught = Null
    /\ rendered = render(InitialState, secureBackupRequired)
    /\ latestRefresh = Null

\* ------------------------------------------------------------- environment
\* What the server and the crypto layer can answer.
NoPatch == [f \in {} |-> Null]

\* The TrustInfo checkKeyBackup / isKeyBackupTrusted report for a backup.
TrustResults ==
    { [ sigs |-> << [ deviceId |-> "OTHERDEVICE",
                      device |-> [ deviceId |-> "OTHERDEVICE",
                                   fingerprint |-> "ed25519:other" ],
                      crossSigningId |-> "",
                      valid |-> TRUE,
                      deviceVerified |-> TRUE ] >>,
        trusted_locally |-> TRUE ] }

\* The TrustInfo they report when there is no backup: the result type is
\* TrustInfo, never null, and nothing has signed.
NoBackupTrust == [ sigs |-> <<>>, trusted_locally |-> FALSE ]

\* The trust reported for backupInfo.
TrustFor(backupInfo) ==
    IF backupInfo = Null THEN {NoBackupTrust} ELSE TrustResults

\* What getSessionBackupPrivateKey() can resolve to: nothing, a Uint8Array,
\* or a value of another type.
CachedKeys == {"null", "Uint8Array", "other"}

\* The four answers getUpdatedDiagnostics awaits: a few combinations in which
\* every answer takes each of its values.
Answers(stored, key, hasKey, ready) ==
    [ isKeyBackupKeyStored |-> stored,
      backupKeyFromCache |-> key,
      hasKey |-> hasKey,
      isSecretStorageReady |-> ready ]

DiagnosticAnswers ==
    { Answers(FALSE, "null", FALSE, FALSE),
      Answers(TRUE, "Uint8Array", TRUE, TRUE),
      Answers(TRUE, "other", TRUE, FALSE) }

\* ---------------------------------------------------------------- lifecycle
\* checkKeyBackupStatus up to its await: getUpdatedDiagnostics() is started,
\* checkKeyBackup() is called.
checkKeyBackupStatus ==
    /\ Room(2)
    /\ pending' = pending (+) SetToBag({ Task("getUpdatedDiagnostics", Null),
                                         Task("checkKeyBackup", Null) })
    /\ checkKeyBackupCalls' = checkKeyBackupCalls + 1
    /\ latestRefresh' = Task("checkKeyBackup", Null)
    /\ UNCHANGED << state, rendered >>
    /\ uncaught' = Null

\* componentDidMount: checkKeyBackupStatus(), then the two listeners.
componentDidMount ==
    /\ lifecycle = "constructed"
    /\ checkKeyBackupStatus
    /\ lifecycle' = "mounted"
    /\ listeners' = {"KeyBackupStatus", "KeyBackupSessionsRemaining"}
    /\ UNCHANGED << unmounted, clientPresent, secureBackupRequired >>

\* componentWillUnmount: the listeners are removed only if the client is
\* still there.  React takes the component off the screen.
componentWillUnmount ==
    /\ lifecycle = "mounted"
    /\ lifecycle' = "unmounted"
    /\ unmounted' = TRUE
    /\ \E present \in BOOLEAN :
          /\ clientPresent' = present
          /\ listeners' = IF present THEN {} ELSE listeners
    /\ rendered' = NotRendered
    /\ latestRefresh' = Null
    /\ uncaught' = Null
    /\ UNCHANGED << state, secureBackupRequired, pending,
                    checkKeyBackupCalls >>

\* ------------------------------------------------------------------- events
\* onKeyBackupSessionsRemaining followed by a reload.
onKeyBackupSessionsRemaining_reloads(sessionsRemaining) ==
    /\ "KeyBackupSessionsRemaining" \in listeners
    /\ InFlight + 2 <= MaxPending
    /\ setState([sessionsRemaining |-> sessionsRemaining, loading |-> TRUE])
    /\ pending' = pending (+) SetToBag({ Task("getUpdatedDiagnostics", Null),
                                         Task("getKeyBackupVersion", Null) })
    /\ latestRefresh' = Task("getKeyBackupVersion", Null)
    /\ uncaught' = Null
    /\ UNCHANGED << unmounted, lifecycle, listeners, clientPresent,
                    secureBackupRequired, checkKeyBackupCalls >>

onKeyBackupSessionsRemaining(sessionsRemaining) ==
    /\ "KeyBackupSessionsRemaining" \in listeners
    /\ setState([sessionsRemaining |-> sessionsRemaining])
    /\ uncaught' = Null
    /\ UNCHANGED << unmounted, lifecycle, listeners, clientPresent,
                    secureBackupRequired, pending, checkKeyBackupCalls,
                    latestRefresh >>

\* loadBackupStatus up to its first await, run in the same turn as the
\* setState(patch) of its caller and the end of the calls in done.  Without a
\* client both MatrixClientPeg.get() uses throw: the one in
\* getUpdatedDiagnostics rejects a promise nobody awaits, the one in the try
\* block is caught and, the component being unmounted, dropped.
loadBackupStatus(patch, done) ==
    /\ InFlight - BagCardinality(done) + 2 <= MaxPending
    /\ setState([loading |-> TRUE] @@ patch)
    /\ IF clientPresent
          THEN /\ pending' = (pending (-) done)
                     (+) SetToBag({ Task("getUpdatedDiagnostics", Null),
                                    Task("getKeyBackupVersion", Null) })
               /\ latestRefresh' = IF unmounted THEN Null
                                   ELSE Task("getKeyBackupVersion", Null)
               /\ uncaught' = Null
          ELSE /\ pending' = pending (-) done
               /\ latestRefresh' = Null
               /\ uncaught' = TypeError
    /\ UNCHANGED << unmounted, lifecycle, listeners, clientPresent,
                    secureBackupRequired, checkKeyBackupCalls >>

\* onKeyBackupStatus forcing a re-check.
onKeyBackupStatus_recheck ==
    /\ "KeyBackupStatus" \in listeners
    /\ checkKeyBackupStatus
    /\ UNCHANGED << unmounted, lifecycle, listeners, clientPresent,
                    secureBackupRequired >>

onKeyBackupStatus ==
    /\ "KeyBackupStatus" \in listeners
    /\ loadBackupStatus(NoPatch, EmptyBag)

\* The frame of a continuation that touches only the state, the calls in
\* flight and the uncaught error.
Continuation ==
    UNCHANGED << unmounted, lifecycle, listeners, clientPresent,
                 secureBackupRequired, checkKeyBackupCalls >>

\* Some other copy of task is in flight than the one the most recently
\* started refresh waits on.
Stale(task) ==
    CopiesIn(task, pending) > (IF latestRefresh = task THEN 1 ELSE 0)

\* The call task has come back and its caller goes on to wait on next (Null
\* when it waits on nothing more): the caller is the most recently started
\* refresh, or it is not.
Moves(task, next) ==
    \/ latestRefresh = task /\ latestRefresh' = next
    \/ Stale(task) /\ latestRefresh' = latestRefresh

Finish(task) ==
    /\ pending' = pending (-) SetToBag({task})
    /\ Moves(task, Null)

\* A continuation that returns without a write.
Dropped(task) ==
    /\ Finish(task)
    /\ UNCHANGED << state, rendered >>
    /\ uncaught' = Null
    /\ Continuation

\* A continuation whose only write is setState(patch).
Commit(task, patch) ==
    /\ Finish(task)
    /\ setState(patch)
    /\ uncaught' = Null
    /\ Continuation

\* ------------------------------------------------------ checkKeyBackupStatus
\* checkSucceeded without the trust.
checkSucceeded_noTrust(backupInfo, trustInfo) ==
    [ loading |-> FALSE,
      error |-> Null,
      backupInfo |-> backupInfo ]

\* The setState of the try block.
checkSucceeded(backupInfo, trustInfo) ==
    [ loading |-> FALSE,
      error |-> Null,
      backupInfo |-> backupInfo,
      backupSigStatus |-> trustInfo ]

\* The setState of the catch block.
checkFailed(e) ==
    [ loading |-> FALSE,
      error |-> e,
      backupInfo |-> Null,
      backupSigStatus |-> Null ]

\* await checkKeyBackup() resolves: the state is set with no look at
\* this.unmounted.
checkKeyBackupResolved ==
    /\ BagIn(Task("checkKeyBackup", Null), pending)
    /\ \E backupInfo \in BackupInfos \cup {Null} :
       \E trustInfo \in TrustFor(backupInfo) :
          Commit(Task("checkKeyBackup", Null),
                 checkSucceeded(backupInfo, trustInfo))

\* await checkKeyBackup() rejects.
checkKeyBackupRejected ==
    /\ BagIn(Task("checkKeyBackup", Null), pending)
    /\ IF unmounted
          THEN Dropped(Task("checkKeyBackup", Null))
          ELSE Commit(Task("checkKeyBackup", Null),
                      checkFailed(Err("checkKeyBackup")))

\* ---------------------------------------------------------- loadBackupStatus
\* The setState of the try block.
loadSucceeded(backupInfo, backupSigStatus) ==
    [ loading |-> FALSE,
      error |-> Null,
      backupInfo |-> backupInfo,
      backupSigStatus |-> backupSigStatus ]

\* loadFailed with the backup left in place.
loadFailed_keepsBackup(e) ==
    [ loading |-> FALSE,
      error |-> e ]

\* The setState of the catch block.
loadFailed(e) ==
    [ loading |-> FALSE,
      error |-> e,
      backupInfo |-> Null,
      backupSigStatus |-> Null ]

\* The catch block.
loadCaught(task, e) ==
    IF unmounted THEN Dropped(task) ELSE Commit(task, loadFailed(e))

\* await getKeyBackupVersion() resolves and isKeyBackupTrusted(backupInfo) is
\* called; without a client that call throws into the catch block.
getKeyBackupVersionResolved ==
    /\ BagIn(Task("getKeyBackupVersion", Null), pending)
    /\ IF clientPresent
          THEN \E backupInfo \in BackupInfos \cup {Null} :
                  /\ pending' = (pending
                          (-) SetToBag({Task("getKeyBackupVersion", Null)}))
                          (+) SetToBag({Task("isKeyBackupTrusted", backupInfo)})
                  /\ Moves(Task("getKeyBackupVersion", Null),
                           Task("isKeyBackupTrusted", backupInfo))
                  /\ UNCHANGED << state, rendered >>
                  /\ uncaught' = Null
                  /\ Continuation
          ELSE loadCaught(Task("getKeyBackupVersion", Null), TypeError)

getKeyBackupVersionRejected ==
    /\ BagIn(Task("getKeyBackupVersion", Null), pending)
    /\ loadCaught(Task("getKeyBackupVersion", Null),
                  Err("getKeyBackupVersion"))

\* await isKeyBackupTrusted(backupInfo) resolves.
isKeyBackupTrustedResolved ==
    \E backupInfo \in BackupInfos \cup {Null} :
       /\ BagIn(Task("isKeyBackupTrusted", backupInfo), pending)
       /\ \E backupSigStatus \in TrustFor(backupInfo) :
             IF unmounted
                THEN Dropped(Task("isKeyBackupTrusted", backupInfo))
                ELSE Commit(Task("isKeyBackupTrusted", backupInfo),
                            loadSucceeded(backupInfo, backupSigStatus))

isKeyBackupTrustedRejected ==
    \E backupInfo \in BackupInfos \cup {Null} :
       /\ BagIn(Task("isKeyBackupTrusted", backupInfo), pending)
       /\ loadCaught(Task("isKeyBackupTrusted", backupInfo),
                     Err("isKeyBackupTrusted"))

\* ------------------------------------------------------ getUpdatedDiagnostics
\* diagnosticsPatch with the negation of the cached key taken once, not twice.
diagnosticsPatch_notKey(answers) ==
    [ backupKeyStored |-> ToJs(answers.isKeyBackupKeyStored),
      backupKeyCached |-> ToJs(answers.backupKeyFromCache = "null"),
      backupKeyWellFormed |-> ToJs(answers.backupKeyFromCache = "Uint8Array"),
      secretStorageKeyInAccount |-> ToJs(answers.hasKey),
      secretStorageReady |-> ToJs(answers.isSecretStorageReady) ]

\* The setState after the four awaits.
diagnosticsPatch(answers) ==
    [ backupKeyStored |-> ToJs(answers.isKeyBackupKeyStored),
      backupKeyCached |-> ToJs(answers.backupKeyFromCache # "null"),
      backupKeyWellFormed |-> ToJs(answers.backupKeyFromCache = "Uint8Array"),
      secretStorageKeyInAccount |-> ToJs(answers.hasKey),
      secretStorageReady |-> ToJs(answers.isSecretStorageReady) ]

\* The four awaits read nothing of the component and write nothing, so they
\* are one step: all four answers are there.
getUpdatedDiagnosticsResolved ==
    /\ BagIn(Task("getUpdatedDiagnostics", Null), pending)
    /\ \E answers \in DiagnosticAnswers :
          IF unmounted
             THEN Dropped(Task("getUpdatedDiagnostics", Null))
             ELSE Commit(Task("getUpdatedDiagnostics", Null),
                         diagnosticsPatch(answers))

\* One of the four awaits rejects: the promise of getUpdatedDiagnostics()
\* rejects, and no caller awaits or catches it.
getUpdatedDiagnosticsRejected ==
    /\ BagIn(Task("getUpdatedDiagnostics", Null), pending)
    /\ Finish(Task("getUpdatedDiagnostics", Null))
    /\ uncaught' = Err("getUpdatedDiagnostics")
    /\ UNCHANGED << state, rendered >>
    /\ Continuation

\* --------------------------------------------------------------- operations
\* A button can be clicked while the component is mounted and shows it.
Shown(key) ==
    /\ lifecycle = "mounted"
    /\ \E i \in DOMAIN rendered.actions : rendered.actions[i] = key

\* A handler that only opens a dialog or starts a call.
Opens(task) ==
    /\ Room(1)
    /\ pending' = pending (+) SetToBag({task})
    /\ uncaught' = Null
    /\ UNCHANGED << unmounted, lifecycle, listeners, clientPresent,
                    secureBackupRequired, checkKeyBackupCalls,
                    latestRefresh >>

\* startNewBackup: the create dialog opens.
startNewBackup ==
    /\ Shown("setup")
    /\ Opens(Task("CreateKeyBackupDialog", Null))
    /\ UNCHANGED << state, rendered >>

\* onFinished of the create dialog.
createKeyBackupDialogFinished ==
    /\ BagIn(Task("CreateKeyBackupDialog", Null), pending)
    /\ loadBackupStatus(NoPatch, SetToBag({Task("CreateKeyBackupDialog", Null)}))

\* deleteBackup: the question dialog opens.
deleteBackup ==
    /\ Shown("delete")
    /\ Opens(Task("QuestionDialog", Null))
    /\ UNCHANGED << state, rendered >>

\* onFinished(false) of the question dialog.
deleteBackupCancelled ==
    /\ BagIn(Task("QuestionDialog", Null), pending)
    /\ Dropped(Task("QuestionDialog", Null))

\* onFinished(true) of the question dialog: loading is set, then
\* MatrixClientPeg.get().deleteKeyBackupVersion(this.state.backupInfo.version)
\* is evaluated, which throws out of the callback when the client or the
\* backupInfo is null.
deleteBackupConfirmed ==
    /\ BagIn(Task("QuestionDialog", Null), pending)
    /\ setState([loading |-> TRUE])
    /\ IF clientPresent /\ state.backupInfo # Null
          THEN /\ pending' = (pending (-) SetToBag({Task("QuestionDialog", Null)}))
                     (+) SetToBag({Task("deleteKeyBackupVersion",
                                        state.backupInfo)})
               /\ UNCHANGED latestRefresh
               /\ uncaught' = Null
          ELSE /\ Finish(Task("QuestionDialog", Null))
               /\ uncaught' = TypeError
    /\ Continuation

\* deleteKeyBackupVersion(version) resolves: the then callback runs.
deleteKeyBackupVersionResolved ==
    \E backupInfo \in BackupInfos :
       /\ BagIn(Task("deleteKeyBackupVersion", backupInfo), pending)
       /\ loadBackupStatus(NoPatch,
              SetToBag({Task("deleteKeyBackupVersion", backupInfo)}))

\* deleteKeyBackupVersion(version) rejects: the promise chain has no catch.
deleteKeyBackupVersionRejected ==
    \E backupInfo \in BackupInfos :
       /\ BagIn(Task("deleteKeyBackupVersion", backupInfo), pending)
       /\ Finish(Task("deleteKeyBackupVersion", backupInfo))
       /\ uncaught' = Err("deleteKeyBackupVersion")
       /\ UNCHANGED << state, rendered >>
       /\ Continuation

\* restoreBackup: the restore dialog opens; nothing of the component changes.
restoreBackup ==
    /\ Shown("restore")
    /\ uncaught' = Null
    /\ UNCHANGED << state, unmounted, lifecycle, listeners, clientPresent,
                    secureBackupRequired, pending, checkKeyBackupCalls,
                    rendered, latestRefresh >>

\* resetSecretStorage up to its await.
resetSecretStorage ==
    /\ Shown("reset")
    /\ setState([error |-> Null])
    /\ Opens(Task("accessSecretStorage", Null))

\* await accessSecretStorage() resolves.
accessSecretStorageResolved ==
    /\ BagIn(Task("accessSecretStorage", Null), pending)
    /\ IF unmounted
          THEN Dropped(Task("accessSecretStorage", Null))
          ELSE loadBackupStatus(NoPatch,
                   SetToBag({Task("accessSecretStorage", Null)}))

\* A resetSecretStorage whose catch block returns after storing the error.
accessSecretStorageRejected_returns ==
    /\ BagIn(Task("accessSecretStorage", Null), pending)
    /\ IF unmounted
          THEN Dropped(Task("accessSecretStorage", Null))
          ELSE Commit(Task("accessSecretStorage", Null),
                      [error |-> Err("accessSecretStorage")])

\* await accessSecretStorage() rejects: the catch block, then the rest.
accessSecretStorageRejected ==
    /\ BagIn(Task("accessSecretStorage", Null), pending)
    /\ IF unmounted
          THEN Dropped(Task("accessSecretStorage", Null))
          ELSE loadBackupStatus([error |-> Err("accessSecretStorage")],
                   SetToBag({Task("accessSecretStorage", Null)}))

\* ------------------------------------------------------------ specification
Next ==
    \/ componentDidMount
    \/ componentWillUnmount
    \/ \E sessionsRemaining \in SessionCounts :
          onKeyBackupSessionsRemaining(sessionsRemaining)
    \/ onKeyBackupStatus
    \/ checkKeyBackupResolved
    \/ checkKeyBackupRejected
    \/ getKeyBackupVersionResolved
    \/ getKeyBackupVersionRejected
    \/ isKeyBackupTrustedResolved
    \/ isKeyBackupTrustedRejected
    \/ getUpdatedDiagnosticsResolved
    \/ getUpdatedDiagnosticsRejected
    \/ startNewBackup
    \/ createKeyBackupDialogFinished
    \/ deleteBackup
    \/ deleteBackupCancelled
    \/ deleteBackupConfirmed
    \/ deleteKeyBackupVersionResolved
    \/ deleteKeyBackupVersionRejected
    \/ restoreBackup
    \/ resetSecretStorage
    \/ accessSecretStorageResolved
    \/ accessSecretStorageRejected

Spec == Init /\ [][Next]_vars

\* ------------------------------------------------- render as a pure function
\* The states render is applied to: every combination of loading, error,
\* secretStorageKeyInAccount and backup, with every signature list up to
\* MaxSigs for the backup's TrustInfo.
TrustInputs == [ sigs : SigSeqs(MaxSigs), trusted_locally : {FALSE} ]

RenderInputs ==
    { Merge(InitialState,
            [ loading |-> l, error |-> e, secretStorageKeyInAccount |-> k,
              backupInfo |-> b[1], backupSigStatus |-> b[2] ]) :
        l \in BOOLEAN,
        e \in {Null, Err("getKeyBackupVersion")},
        k \in Bool3,
        b \in {<<Null, Null>>, <<Null, NoBackupTrust>>}
              \cup ({[version |-> "1", algorithm |-> "m.megolm_backup.v1"]}
                    \X TrustInputs) }

InitRender ==
    /\ state \in RenderInputs
    /\ secureBackupRequired \in BOOLEAN
    /\ rendered = NotRendered
    /\ unmounted = FALSE
    /\ lifecycle = "mounted"
    /\ listeners = {"KeyBackupStatus", "KeyBackupSessionsRemaining"}
    /\ clientPresent = TRUE
    /\ pending = EmptyBag
    /\ checkKeyBackupCalls = 1
    /\ uncaught = Null
    /\ latestRefresh = Null

\* One call of render().
Renders ==
    /\ rendered = NotRendered
    /\ rendered' = render(state, secureBackupRequired)
    /\ UNCHANGED << state, unmounted, lifecycle, listeners, clientPresent,
                    secureBackupRequired, pending, checkKeyBackupCalls,
                    uncaught, latestRefresh >>

SpecRender == InitRender /\ [][Renders]_vars

\* ------------------------------------------------------------------- claims
Has(seq, x) == \E i \in DOMAIN seq : seq[i] = x

\* The action set of the current snapshot.
Actions == actions(state, secureBackupRequired)

\* A step in which pending work of a FullCheck, of a QuickReload or of a
\* diagnostics fetch resolves, with success or with failure.
RefreshWorkResolves ==
    \/ checkKeyBackupResolved
    \/ checkKeyBackupRejected
    \/ getKeyBackupVersionResolved
    \/ getKeyBackupVersionRejected
    \/ isKeyBackupTrustedResolved
    \/ isKeyBackupTrustedRejected
    \/ getUpdatedDiagnosticsResolved
    \/ getUpdatedDiagnosticsRejected

\* C1: once the component is unmounted, no step in which pending work of
\* checkKeyBackupStatus, loadBackupStatus or getUpdatedDiagnostics resolves
\* changes any field of the state.
C1_NoWriteAfterTeardown ==
    [][(unmounted /\ RefreshWorkResolves) => state' = state]_vars

\* C2: in every reachable state, backupSigStatus is present if and only if
\* backupInfo is present and error is absent.
C2_TrustIffBackupAndNoError ==
    (state.backupSigStatus # Null)
        <=> (state.backupInfo # Null /\ state.error = Null)

\* The failures a refresh (checkKeyBackupStatus or loadBackupStatus) stores.
RefreshFailures ==
    { Err("checkKeyBackup"), Err("getKeyBackupVersion"),
      Err("isKeyBackupTrusted") }

\* C2 as amended: in every reachable state, backupSigStatus is present
\* whenever backupInfo is present, and both are absent whenever error holds
\* the failure of a refresh.
C2_TrustWheneverBackup ==
    /\ state.backupInfo # Null => state.backupSigStatus # Null
    /\ state.error \in RefreshFailures =>
          state.backupInfo = Null /\ state.backupSigStatus = Null

\* A refresh has stored a backup with its trust, and a failed
\* resetSecretStorage has then stored its error next to them.
C2_Witness ==
    /\ state.backupInfo # Null
    /\ state.backupSigStatus # Null
    /\ state.error = Err("accessSecretStorage")

\* The ten categories, in the order of their rules.
Categories ==
    << "ValidFromThisUser", "InvalidFromThisUser", "FromUnknownUser",
       "FromUnknownSession", "ValidFromThisSession", "InvalidFromThisSession",
       "ValidFromVerifiedSession", "ValidFromUnverifiedSession",
       "InvalidFromVerifiedSession", "InvalidFromUnverifiedSession" >>

\* The predicates of the ten rules for one signature, in order.
Rules(sig) ==
    << sig.valid /\ fromThisUser(sig),
       ~sig.valid /\ fromThisUser(sig),
       sig.crossSigningId # "",
       sig.device = Null,
       sig.valid /\ fromThisDevice(sig),
       ~sig.valid /\ fromThisDevice(sig),
       sig.valid /\ sig.deviceVerified,
       sig.valid /\ ~sig.deviceVerified,
       ~sig.valid /\ sig.deviceVerified,
       ~sig.valid /\ ~sig.deviceVerified >>

\* The rules of sig that hold.
Holding(sig) == { i \in 1..10 : Rules(sig)[i] }

\* C3: when render shows a backup, an empty signature list yields the single
\* entry Unsigned; otherwise every signature gets one entry, which is one of
\* the ten categories, namely that of the first rule in the order 1..10
\* whose predicate holds, and a signature with a crossSigningId that is not
\* from this user is FromUnknownUser whether or not its device is known.
C3_FirstRuleWins ==
    rendered.statusDescription = "backup" =>
        LET sigs == state.backupSigStatus.sigs
            shown == rendered.backupSigStatuses
        IN  IF Len(sigs) = 0
               THEN shown = <<"Unsigned">>
               ELSE /\ Len(shown) = Len(sigs)
                    /\ \A i \in 1..Len(sigs) :
                          /\ Holding(sigs[i]) # {}
                          /\ \E r \in Holding(sigs[i]) :
                                /\ \A q \in Holding(sigs[i]) : r <= q
                                /\ shown[i] = Categories[r]
                          /\ (sigs[i].crossSigningId # ""
                                /\ ~fromThisUser(sigs[i]))
                                => shown[i] = "FromUnknownUser"

\* render has classified a signature with a crossSigningId, not from this
\* user, whose device is known, for which rule 3 and a later rule both hold.
C3_Witness ==
    /\ rendered.statusDescription = "backup"
    /\ Len(state.backupSigStatus.sigs) = 1
    /\ state.backupSigStatus.sigs[1].crossSigningId # ""
    /\ state.backupSigStatus.sigs[1].device # Null
    /\ ~fromThisUser(state.backupSigStatus.sigs[1])
    /\ Cardinality(Holding(state.backupSigStatus.sigs[1])) > 1
    /\ rendered.backupSigStatuses = <<"FromUnknownUser">>

\* C4: whatever error, loading and backupInfo are, the rendered action set
\* holds the reset action if and only if secretStorageKeyInAccount is true.
C4_ResetIffKeyInAccount ==
    rendered # NotRendered =>
        (Has(rendered.actions, "reset")
            <=> state.secretStorageKeyInAccount = "true")

\* render has offered the reset action with error set, loading true and a
\* backup present.
C4_Witness ==
    /\ state.error # Null
    /\ state.loading
    /\ state.backupInfo # Null
    /\ state.secretStorageKeyInAccount = "true"
    /\ Has(rendered.actions, "reset")

\* C5: in every reachable state in which backupInfo is present, the action
\* set holds the delete action if and only if secureBackupRequired is false.
C5_DeleteFollowsPolicy ==
    state.backupInfo # Null =>
        (Has(Actions, "delete") <=> ~secureBackupRequired)

\* C5 as amended: in every reachable state in which backupInfo is present,
\* error is absent and loading is false, the action set holds the delete
\* action if and only if secureBackupRequired is false; while error is set
\* or loading is true it does not hold the delete action.
C5_DeleteFollowsPolicyWhenReady ==
    state.backupInfo # Null =>
        IF state.error = Null /\ ~state.loading
           THEN Has(Actions, "delete") <=> ~secureBackupRequired
           ELSE ~Has(Actions, "delete")

\* A refresh has stored a backup where backup is not required, and the
\* delete action is offered.
C5_Witness ==
    /\ state.backupInfo # Null
    /\ state.error = Null
    /\ ~state.loading
    /\ ~secureBackupRequired
    /\ Has(Actions, "delete")
    /\ lifecycle = "mounted"

\* The fields of the state other than sessionsRemaining.
OtherFields == DOMAIN InitialState \ {"sessionsRemaining"}

\* C6: a step of onKeyBackupSessionsRemaining(n) sets sessionsRemaining to n,
\* leaves every other field of the state as it was and starts no call; and
\* sessionsRemaining is at least 0 before and after every step.
C6_SessionsRemainingOnly ==
    [][/\ state.sessionsRemaining >= 0
       /\ state'.sessionsRemaining >= 0
       /\ \A n \in SessionCounts :
             onKeyBackupSessionsRemaining(n) =>
                /\ state'.sessionsRemaining = n
                /\ \A f \in OtherFields : state'[f] = state[f]
                /\ pending' = pending
                /\ checkKeyBackupCalls' = checkKeyBackupCalls]_vars

\* The event has been handled after a refresh stored a backup and while no
\* call is in flight.
C6_Witness ==
    /\ state.sessionsRemaining = 5
    /\ state.backupInfo # Null
    /\ ~state.loading
    /\ pending = EmptyBag

\* How many calls of this kind are in flight.
Count(bag, kind) ==
    BagCardinality([t \in {x \in DOMAIN bag : x.kind = kind} |-> bag[t]])

\* A step in which loadBackupStatus is entered: by the KeyBackupStatus event
\* or after an operation.
RefreshRequested ==
    \/ onKeyBackupStatus
    \/ createKeyBackupDialogFinished
    \/ deleteKeyBackupVersionResolved
    \/ (~unmounted /\ accessSecretStorageResolved)
    \/ (~unmounted /\ accessSecretStorageRejected)

\* C7: before and after every step, checkKeyBackup() has been called exactly
\* once if the component has been mounted and never if it has not; every
\* step of onKeyBackupStatus
\* and every refresh after an operation calls getKeyBackupVersion() and
\* not checkKeyBackup(), and isKeyBackupTrusted() follows when
\* getKeyBackupVersion() resolves.
C7_FullCheckOnlyAtStart ==
    [][/\ checkKeyBackupCalls = (IF lifecycle = "constructed" THEN 0 ELSE 1)
       /\ checkKeyBackupCalls' = (IF lifecycle' = "constructed" THEN 0 ELSE 1)
       /\ RefreshRequested =>
             /\ checkKeyBackupCalls' = checkKeyBackupCalls
             /\ Count(pending', "checkKeyBackup")
                   = Count(pending, "checkKeyBackup")
             /\ clientPresent =>
                   Count(pending', "getKeyBackupVersion")
                      = Count(pending, "getKeyBackupVersion") + 1
       /\ (getKeyBackupVersionResolved /\ clientPresent) =>
             Count(pending', "isKeyBackupTrusted")
                = Count(pending, "isKeyBackupTrusted") + 1]_vars

\* A KeyBackupStatus event has started a QuickReload while the FullCheck of
\* the start is still in flight.
C7_Witness ==
    /\ lifecycle = "mounted"
    /\ checkKeyBackupCalls = 1
    /\ Count(pending, "checkKeyBackup") = 1
    /\ Count(pending, "getKeyBackupVersion") = 1

\* What the commit of the failure e leaves of the state st.
AfterFailure(st, e) ==
    [st EXCEPT !.loading = FALSE, !.error = e, !.backupInfo = Null,
               !.backupSigStatus = Null]

\* C8: before the component is unmounted, the step in which checkKeyBackup(),
\* getKeyBackupVersion() or isKeyBackupTrusted() rejects sets loading to
\* false, error to that failure, backupInfo and backupSigStatus to null and
\* leaves every other field as it was; the reset action is in the action
\* set afterwards if secretStorageKeyInAccount was true.
C8_RefreshFailureCommitted ==
    [][~unmounted =>
         /\ checkKeyBackupRejected =>
               state' = AfterFailure(state, Err("checkKeyBackup"))
         /\ getKeyBackupVersionRejected =>
               state' = AfterFailure(state, Err("getKeyBackupVersion"))
         /\ isKeyBackupTrustedRejected =>
               state' = AfterFailure(state, Err("isKeyBackupTrusted"))
         /\ ( \/ checkKeyBackupRejected
              \/ getKeyBackupVersionRejected
              \/ isKeyBackupTrustedRejected )
               => (state.secretStorageKeyInAccount = "true"
                     => Has(actions(state', secureBackupRequired), "reset"))
      ]_vars

\* A QuickReload has failed where a backup had been stored and
\* secretStorageKeyInAccount was true: the backup is cleared, the
\* diagnostics are kept and the reset action is still offered.
C8_Witness ==
    /\ ~unmounted
    /\ state.error = Err("isKeyBackupTrusted")
    /\ ~state.loading
    /\ state.backupInfo = Null
    /\ state.backupSigStatus = Null
    /\ state.secretStorageKeyInAccount = "true"
    /\ state.sessionsRemaining > 0
    /\ Has(Actions, "reset")

\* C9: the rendered action set holds the setup action if and only if
\* backupInfo is absent, error is absent and loading is false; when it does
\* and secretStorageKeyInAccount is not true, setup is the only action.
C9_SetupIffNothingElse ==
    rendered # NotRendered =>
        /\ Has(rendered.actions, "setup")
              <=> ( /\ state.backupInfo = Null
                    /\ state.error = Null
                    /\ ~state.loading )
        /\ ( /\ Has(rendered.actions, "setup")
             /\ state.secretStorageKeyInAccount # "true" )
              => rendered.actions = <<"setup">>

\* render has offered setup alone: no backup, no error, not loading,
\* secretStorageKeyInAccount false.
C9_Witness ==
    /\ state.backupInfo = Null
    /\ state.error = Null
    /\ ~state.loading
    /\ state.secretStorageKeyInAccount = "false"
    /\ rendered.actions = <<"setup">>

\* C10: before the component is unmounted, the step in which
\* deleteKeyBackupVersion() rejects stores that failure in error, so that
\* the state is not left with loading true and error absent.
C10_DeleteFailureAbsorbed ==
    [][(~unmounted /\ deleteKeyBackupVersionRejected) =>
          /\ state'.error = Err("deleteKeyBackupVersion")
          /\ ~(state'.loading /\ state'.error = Null)]_vars

\* C11: resetSecretStorage first clears error; before the component is
\* unmounted, the step in which accessSecretStorage() rejects stores the
\* failure in error and starts a loadBackupStatus, and the step in which
\* it resolves starts a loadBackupStatus as well.
C11_ResetAlwaysReloads ==
    [][ /\ resetSecretStorage => state'.error = Null
        /\ (~unmounted /\ accessSecretStorageRejected) =>
              /\ state'.error = Err("accessSecretStorage")
              /\ state'.loading
              /\ Count(pending', "getKeyBackupVersion")
                    = Count(pending, "getKeyBackupVersion") + 1
        /\ (~unmounted /\ accessSecretStorageResolved) =>
              /\ state'.error = state.error
              /\ state'.loading
              /\ Count(pending', "getKeyBackupVersion")
                    = Count(pending, "getKeyBackupVersion") + 1 ]_vars

\* A failed reset has stored its error and the loadBackupStatus it started
\* is still waiting for getKeyBackupVersion().
C11_Witness ==
    /\ ~unmounted
    /\ state.error = Err("accessSecretStorage")
    /\ state.loading
    /\ BagIn(Task("getKeyBackupVersion", Null), pending)

\* The categories of rules 1 and 2.
ThisUserCategories == {"ValidFromThisUser", "InvalidFromThisUser"}

\* C12: when render shows a backup, a signature is classified as from this
\* user (rules 1 and 2) exactly when its crossSigningId is present and its
\* crossSigningId equals the local cross-signing identity, whatever its
\* deviceId.
C12_ThisUserByCrossSigningId ==
    rendered.statusDescription = "backup" =>
        \A i \in DOMAIN state.backupSigStatus.sigs :
            LET sig == state.backupSigStatus.sigs[i]
            IN  rendered.backupSigStatuses[i] \in ThisUserCategories
                   <=> ( /\ sig.crossSigningId # ""
                         /\ sig.crossSigningId = LocalCrossSigningId )

\* C12 as the code has it: when render shows a backup, a signature is
\* classified as from this user exactly when its crossSigningId is present
\* and its deviceId equals the local cross-signing identity, whatever the
\* value of the crossSigningId.
C12_ThisUserByDeviceId ==
    rendered.statusDescription = "backup" =>
        \A i \in DOMAIN state.backupSigStatus.sigs :
            LET sig == state.backupSigStatus.sigs[i]
            IN  rendered.backupSigStatuses[i] \in ThisUserCategories
                   <=> ( /\ sig.crossSigningId # ""
                         /\ sig.deviceId = LocalCrossSigningId )

\* render has classified as from this user a signature whose crossSigningId
\* is present and differs from the local identity, and whose deviceId is the
\* local identity.
C12_Witness ==
    /\ rendered.statusDescription = "backup"
    /\ Len(state.backupSigStatus.sigs) = 1
    /\ state.backupSigStatus.sigs[1].crossSigningId = "cross:other"
    /\ state.backupSigStatus.sigs[1].deviceId = LocalCrossSigningId
    /\ rendered.backupSigStatuses = <<"ValidFromThisUser">>

\* C13: in every reachable state in which backupInfo is present, the action
\* set holds the restore action, also while loading is true and while error
\* is set.
C13_RestoreWheneverBackup ==
    state.backupInfo # Null => Has(Actions, "restore")

\* C13 as amended: in every reachable state in which backupInfo is present,
\* the action set holds the restore action if and only if error is absent
\* and loading is false.
C13_RestoreWhenReady ==
    state.backupInfo # Null =>
        (Has(Actions, "restore") <=> (state.error = Null /\ ~state.loading))

\* A refresh has stored a backup where backup is required: restore is
\* offered and delete is not.
C13_Witness ==
    /\ lifecycle = "mounted"
    /\ state.backupInfo # Null
    /\ state.error = Null
    /\ ~state.loading
    /\ secureBackupRequired
    /\ Actions = rendered.actions
    /\ Has(rendered.actions, "restore")

\* A step in which a refresh writes its result, success or failure, into
\* the state.
RefreshCommits ==
    \/ checkKeyBackupResolved
    \/ checkKeyBackupRejected
    \/ getKeyBackupVersionRejected
    \/ isKeyBackupTrustedResolved
    \/ isKeyBackupTrustedRejected

\* C14: when refreshes overlap, before the component is unmounted, every
\* step in which a refresh writes its result is a step of the most recently
\* started refresh, so that the result of an older refresh never replaces
\* that of a newer one.
C14_OnlyLatestRefreshCommits ==
    [][(~unmounted /\ RefreshCommits) =>
          /\ latestRefresh # Null
          /\ latestRefresh' = Null]_vars

\* C15: before the component is unmounted, in every step in which the
\* confirmation of deleteBackup arrives, backupInfo is present in the state
\* and deleteKeyBackupVersion is called with that backupInfo's version,
\* whatever refreshes and events came between the opening of the dialog and
\* the confirmation.
C15_DeleteCurrentVersion ==
    [][(~unmounted /\ deleteBackupConfirmed) =>
          /\ state.backupInfo # Null
          /\ state'.backupInfo = state.backupInfo
          /\ CopiesIn(Task("deleteKeyBackupVersion", state.backupInfo),
                      pending')
                = CopiesIn(Task("deleteKeyBackupVersion", state.backupInfo),
                           pending) + 1
          /\ uncaught' = Null]_vars

\* A step in which a user operation goes on after its dialog or its call:
\* the create dialog finishes, the delete dialog is answered, the deletion
\* call comes back, the secret storage reset comes back.
OperationContinues ==
    \/ createKeyBackupDialogFinished
    \/ deleteBackupCancelled
    \/ deleteBackupConfirmed
    \/ deleteKeyBackupVersionResolved
    \/ deleteKeyBackupVersionRejected
    \/ accessSecretStorageResolved
    \/ accessSecretStorageRejected

\* C16: once the component is unmounted, no step in which a user operation
\* goes on after its dialog or its call changes any field of the state.
C16_NoOperationWriteAfterTeardown ==
    [][(unmounted /\ OperationContinues) => state' = state]_vars

\* C17: before the component is unmounted, the step in which a call of
\* getUpdatedDiagnostics fails stores the failure as the error of the
\* state, clears backupInfo and backupSigStatus, and lets no error escape
\* the component.
C17_DiagnosticsFailureReported ==
    [][(~unmounted /\ getUpdatedDiagnosticsRejected) =>
          /\ state'.error # Null
          /\ state'.backupInfo = Null
          /\ state'.backupSigStatus = Null
          /\ uncaught' = Null]_vars

\* C18: if the component is never unmounted and every call and every dialog
\* completes, loading does not stay true.  A run that has reached a state
\* with nothing in flight can stay there for ever, as no event and no click
\* has to come, so the claim requires: in every state of a mounted component
\* in which no call and no dialog is in flight, loading is false.
C18_LoadingClearsWhenQuiescent ==
    (lifecycle = "mounted" /\ pending = EmptyBag) => ~state.loading

\* C19: once the component is unmounted, a KeyBackupStatus event starts no
\* loadBackupStatus and a KeyBackupSessionsRemaining event does not change
\* sessionsRemaining: neither handler runs any more.
C19_NoEventHandledAfterTeardown ==
    [][unmounted =>
          /\ ~onKeyBackupStatus
          /\ \A sessionsRemaining \in SessionCounts :
                onKeyBackupSessionsRemaining(sessionsRemaining)
                   => state'.sessionsRemaining = state.sessionsRemaining]_vars

\* The calls of the refreshes in flight.
RefreshesInFlight ==
    Count(pending, "checkKeyBackup") + Count(pending, "getKeyBackupVersion")
        + Count(pending, "isKeyBackupTrusted")

\* C20: before the component is unmounted, loading is true in every state
\* in which a refresh is in flight, also when refreshes overlap: loading
\* false means that no refresh is pending.
C20_LoadingWhileRefreshing ==
    (~unmounted /\ RefreshesInFlight > 0) => state.loading

\* backupKeyWellFormed true implies backupKeyCached true in st.
WellFormedIsCached(st) ==
    st.backupKeyWellFormed = "true" => st.backupKeyCached = "true"

\* C21: before and after every step, backupKeyWellFormed true implies
\* backupKeyCached true; and a step that changes either field writes both
\* of them, as computed from one and the same answer of
\* getSessionBackupPrivateKey().
C21_WellFormedImpliesCached ==
    [][ /\ WellFormedIsCached(state)
        /\ WellFormedIsCached(state')
        /\ ( \/ state'.backupKeyCached # state.backupKeyCached
             \/ state'.backupKeyWellFormed # state.backupKeyWellFormed )
              => \E key \in CachedKeys :
                    /\ state'.backupKeyCached = ToJs(key # "null")
                    /\ state'.backupKeyWellFormed
                          = ToJs(key = "Uint8Array") ]_vars

\* getUpdatedDiagnostics has stored the flags of a cached key that is a
\* Uint8Array: both are true.
C21_Witness ==
    /\ lifecycle = "mounted"
    /\ state.backupKeyWellFormed = "true"
    /\ state.backupKeyCached = "true"

====
